---- MODULE Spec2Model ----
(***************************************************************************)
(* Table-to-Markdown flattening of the document converter (src/new.py).    *)
(*                                                                         *)
(* A text is a sequence of characters, each character a one-element        *)
(* string; the en-dash U+2013 is the character DASH.  A python-docx table  *)
(* is the sequence of its rows (table.rows), a row the sequence of its     *)
(* cells (row.cells), a cell the record of its paragraph texts             *)
(* (cell.paragraphs[i].text) and of its nested tables (cell.tables).       *)
(***************************************************************************)
EXTENDS Integers, Sequences, FiniteSets, TLC

VARIABLES
    table,       \* the table handed to the flattener
    pc,          \* which call has returned
    result,      \* lines returned by process_table_proper_format
    table_data,  \* rows returned by extract_table_data
    text,        \* raw cell text handed to the cell normalization
    cell_text,   \* its normalized form
    cell_again,  \* the normalized form, normalized once more
    doc,            \* body elements of the document, in document order
    pos,            \* number of body elements the page loop has processed
    page_number,    \* number of the page being filled
    current_lines,  \* lines of the page being filled
    markdown_pages, \* finished pages, each <<page number, lines>>
    files,          \* files written, in the order of writing
    source,          \* what is found at pptx_file_path
    deck,            \* slides of the presentation, each the sequence of its shapes
    slide_num,       \* number of the slide being processed
    shape_idx,       \* number of shapes of that slide already processed
    chart_counter,   \* self.chart_counter
    image_counter,   \* self.image_counter
    chart_metadata,  \* self.chart_metadata
    slide_contents,  \* what the shapes processed so far returned, None left out
    written,         \* files of the conversion opened for writing, in order
    returned,        \* what convert returned
    listing,         \* files of the input folder, in the order of os.listdir
    file_pos,        \* number of files the bulk loop has gone through
    calls,           \* base names word_to_markdown_pages was called with
    log              \* messages printed

pageVars == <<doc, pos, page_number, current_lines, markdown_pages, files>>

convertVars ==
    <<source, deck, slide_num, shape_idx, chart_counter, image_counter,
      chart_metadata, slide_contents, written, returned>>

bulkVars == <<listing, file_pos, calls>>

runVars == <<convertVars, bulkVars, log>>

vars ==
    <<table, pc, result, table_data, text, cell_text, cell_again, pageVars, runVars>>

(***************************************************************************)
(* Characters and Python string primitives.                                *)
(***************************************************************************)
DASH == "EN-DASH"

Placeholder == <<DASH>>

EmptyLine == <<>>

\* characters matched by \s and removed by str.strip(), among those modelled
IsSpace(c) == c \in {" ", "\t", "\n", "\r"}

\* characters matched by \d
IsDigit(c) == c \in {"0", "1", "2", "3", "4", "5", "6", "7", "8", "9"}

\* str.lower() on one character of the modelled alphabet
LowerChar(c) ==
    CASE c = "T" -> "t"
      [] c = "O" -> "o"
      [] c = "A" -> "a"
      [] c = "L" -> "l"
      [] OTHER -> c

lower(s) == [i \in 1..Len(s) |-> LowerChar(s[i])]

RECURSIVE lstrip(_)
lstrip(s) ==
    IF s # <<>> /\ IsSpace(Head(s)) THEN lstrip(Tail(s)) ELSE s

RECURSIVE rstrip(_)
rstrip(s) ==
    IF s # <<>> /\ IsSpace(s[Len(s)]) THEN rstrip(SubSeq(s, 1, Len(s) - 1)) ELSE s

strip(s) == rstrip(lstrip(s))

\* s.replace(old, new) for a one-character old
RECURSIVE replace(_, _, _)
replace(s, old, new) ==
    IF s = <<>> THEN <<>>
    ELSE (IF Head(s) = old THEN new ELSE <<Head(s)>>) \o replace(Tail(s), old, new)

\* sep.join(parts)
RECURSIVE join(_, _)
join(sep, parts) ==
    IF parts = <<>> THEN <<>>
    ELSE IF Len(parts) = 1 THEN parts[1]
    ELSE parts[1] \o sep \o join(sep, Tail(parts))

\* sub in s
Contains(s, sub) ==
    \E i \in 0..(Len(s) - Len(sub)) : SubSeq(s, i + 1, i + Len(sub)) = sub

\* re.sub(r'\s+', ' ', s)
RECURSIVE collapse_whitespace(_)
collapse_whitespace(s) ==
    IF s = <<>> THEN <<>>
    ELSE IF IsSpace(Head(s)) THEN <<" ">> \o collapse_whitespace(lstrip(s))
    ELSE <<Head(s)>> \o collapse_whitespace(Tail(s))

\* length of the longest prefix of s made of digits
RECURSIVE DigitRun(_)
DigitRun(s) ==
    IF s # <<>> /\ IsDigit(Head(s)) THEN 1 + DigitRun(Tail(s)) ELSE 0

\* re.sub(r'(\d+)\s*%', r'\1%', s): leftmost matches, left to right
RECURSIVE tighten_percent(_)
tighten_percent(s) ==
    IF s = <<>> THEN <<>>
    ELSE LET d == DigitRun(s)
             after == lstrip(SubSeq(s, d + 1, Len(s)))
         IN  IF d > 0 /\ after # <<>> /\ Head(after) = "%"
             THEN SubSeq(s, 1, d) \o <<"%">> \o tighten_percent(Tail(after))
             ELSE <<Head(s)>> \o tighten_percent(Tail(s))

(***************************************************************************)
(* Cell normalization.                                                     *)
(***************************************************************************)
\* mutant: the word is looked for in the text as written, not in its lower case
format_percentages_case_sensitive(t) ==
    LET tight == tighten_percent(t)
    IN  IF Contains(tight, <<"t", "o", "t", "a", "l">>)
        THEN <<"T", "o", "t", "a", "l">>
        ELSE tight

format_percentages(t) ==
    LET tight == tighten_percent(t)
    IN  IF Contains(lower(tight), <<"t", "o", "t", "a", "l">>)
        THEN <<"T", "o", "t", "a", "l">>
        ELSE tight

\* mutant: the pipe is escaped with a backslash and stays in the text
PipeEntity_backslash == <<"\\", "|">>

PipeEntity == <<"&", "#", "1", "2", "4", ";">>

\* mutant: the pipe is not replaced
clean_cell_text_keep_pipes(t) ==
    IF t = <<>> THEN <<>>
    ELSE LET replaced == replace(replace(replace(t, "\n", <<" ">>), "\r", <<" ">>), "\t", <<" ">>)
         IN  format_percentages(strip(collapse_whitespace(replaced)))

\* mutant: the ends are not trimmed
clean_cell_text_no_strip(t) ==
    IF t = <<>> THEN <<>>
    ELSE LET replaced == replace(replace(replace(replace(t, "|", PipeEntity),
                                 "\n", <<" ">>), "\r", <<" ">>), "\t", <<" ">>)
         IN  format_percentages(collapse_whitespace(replaced))

clean_cell_text(t) ==
    IF t = <<>> THEN <<>>
    ELSE LET replaced == replace(replace(replace(replace(t, "|", PipeEntity),
                                 "\n", <<" ">>), "\r", <<" ">>), "\t", <<" ">>)
         IN  format_percentages(strip(collapse_whitespace(replaced)))

\* clean_cell_text(...) or DASH
normalize_cell(t) ==
    LET cleaned == clean_cell_text(t)
    IN  IF cleaned = <<>> THEN Placeholder ELSE cleaned

(***************************************************************************)
(* Table extraction and rendering.                                         *)
(***************************************************************************)
\* the stripped, non-empty paragraph texts of a cell
cell_text_parts(cell) ==
    LET stripped == [i \in 1..Len(cell.paragraphs) |-> strip(cell.paragraphs[i])]
        NonEmpty(p) == p # <<>>
    IN  SelectSeq(stripped, NonEmpty)

row_data(row) ==
    [i \in 1..Len(row) |-> normalize_cell(join(<<" ">>, cell_text_parts(row[i])))]

\* mutant: rows of placeholders are kept
extract_table_data_keep_all(t) ==
    IF t = <<>> THEN <<>>
    ELSE [i \in 1..Len(t) |-> row_data(t[i])]

extract_table_data(t) ==
    IF t = <<>> THEN <<>>
    ELSE LET rows == [i \in 1..Len(t) |-> row_data(t[i])]
             Kept(r) == \E i \in 1..Len(r) : r[i] # Placeholder
         IN  SelectSeq(rows, Kept)

\* '| ' + ' | '.join(row) + ' |'
table_line(row) == <<"|", " ">> \o join(<<" ", "|", " ">>, row) \o <<" ", "|">>

\* '| ' + ' | '.join(['---'] * n) + ' |'
separator_line(n) == table_line([i \in 1..n |-> <<"-", "-", "-">>])

\* mutant: the placeholders are inserted in front of the row
pad_row_front(row, n) ==
    IF Len(row) < n THEN [i \in 1..(n - Len(row)) |-> Placeholder] \o row ELSE row

\* while len(row) < n: row.append(DASH)
pad_row(row, n) ==
    IF Len(row) < n THEN row \o [i \in 1..(n - Len(row)) |-> Placeholder] ELSE row

\* mutant: long rows are not cut
truncate_row_none(row, n) == row

\* row[:n]
truncate_row(row, n) == SubSeq(row, 1, IF Len(row) < n THEN Len(row) ELSE n)

\* mutant: the separator line is missing
render_table_data_no_separator(data) ==
    LET header_row == data[1]
        body == Tail(data)
    IN  <<table_line(header_row)>>
        \o [i \in 1..Len(body) |->
              table_line(truncate_row(pad_row(body[i], Len(header_row)), Len(header_row)))]

\* mutant: the body rows are emitted last to first
render_table_data_reversed(data) ==
    LET header_row == data[1]
        body == Tail(data)
    IN  <<table_line(header_row), separator_line(Len(header_row))>>
        \o [i \in 1..Len(body) |->
              table_line(truncate_row(pad_row(body[Len(body) + 1 - i], Len(header_row)),
                                      Len(header_row)))]

\* header line, separator line, one line per body row
render_table_data(data) ==
    LET header_row == data[1]
        body == Tail(data)
    IN  <<table_line(header_row), separator_line(Len(header_row))>>
        \o [i \in 1..Len(body) |->
              table_line(truncate_row(pad_row(body[i], Len(header_row)), Len(header_row)))]

process_regular_table(t) ==
    LET data == extract_table_data(t)
    IN  IF data = <<>> THEN <<>> ELSE render_table_data(data)

\* cell.tables of every cell, in row order then cell order
RECURSIVE flatten(_)
flatten(seqs) == IF seqs = <<>> THEN <<>> ELSE Head(seqs) \o flatten(Tail(seqs))

nested_tables(t) ==
    flatten([i \in 1..Len(t) |-> flatten([j \in 1..Len(t[i]) |-> t[i][j].tables])])

\* mutant: nested tables that extract to nothing stay in all_tables
collect_all_tables_unfiltered(t) ==
    LET nested == nested_tables(t)
    IN  [i \in 1..Len(nested) |-> extract_table_data(nested[i])]

\* all_tables: the non-empty extractions of the nested tables
collect_all_tables(t) ==
    LET nested == nested_tables(t)
        extracted == [i \in 1..Len(nested) |-> extract_table_data(nested[i])]
        NonEmpty(d) == d # <<>>
    IN  SelectSeq(extracted, NonEmpty)

RECURSIVE render_all_tables(_, _)
render_all_tables(all_tables, idx) ==
    IF idx > Len(all_tables) THEN <<>>
    ELSE (IF idx > 1 THEN <<EmptyLine>> ELSE <<>>)
         \o (IF all_tables[idx] # <<>> THEN render_table_data(all_tables[idx]) ELSE <<>>)
         \o render_all_tables(all_tables, idx + 1)

process_nested_table_content(t) == render_all_tables(collect_all_tables(t), 1)

\* mutant: only the first row is searched for nested tables
has_nested_tables_first_row(t) ==
    t # <<>> /\ \E j \in 1..Len(t[1]) : t[1][j].tables # <<>>

has_nested_tables(t) ==
    \E i \in 1..Len(t) : \E j \in 1..Len(t[i]) : t[i][j].tables # <<>>

\* mutant: a table without rows yields one empty line
process_table_proper_format_blank(t) ==
    IF t = <<>> THEN <<EmptyLine>>
    ELSE IF has_nested_tables(t) THEN process_nested_table_content(t)
    ELSE process_regular_table(t)

process_table_proper_format(t) ==
    IF t = <<>> THEN <<>>
    ELSE IF has_nested_tables(t) THEN process_nested_table_content(t)
    ELSE process_regular_table(t)

(***************************************************************************)
(* Bounds and inputs.                                                      *)
(***************************************************************************)
\* rows of a table
MaxRows == 3

\* cells, over all rows, of a table whose cells take every sample content
MaxCells == 3

\* cells, over all rows, of a table whose content follows from its shape
MaxRaggedCells == 6

\* cells, over all rows, of a table whose cells may hold nested tables
MaxOuterCells == 2

\* fragments a raw cell text is made of
MaxFragments == 4

Blank == <<" ">>

TextX == <<"x">>

TextPipe == <<"|">>

TextY == <<"y", "|", "z">>

\* paragraph texts of the cells of tables without nested tables
CellParagraphs ==
    { <<Blank>>, <<TextPipe, TextY>>, <<Placeholder>> }

PlainCell(paragraphs) == [paragraphs |-> paragraphs, tables |-> <<>>]

PlainCells == { PlainCell(p) : p \in CellParagraphs }

NestedZeroRows == <<>>

NestedBlank == << <<PlainCell(<<Blank>>), PlainCell(<<>>)>> >>

NestedPad ==
    << <<PlainCell(<<TextX>>), PlainCell(<<TextY>>)>>,
       <<PlainCell(<<TextY>>)>> >>

NestedTruncate ==
    << <<PlainCell(<<Blank>>)>>,
       <<PlainCell(<<TextPipe>>)>>,
       <<PlainCell(<<TextX>>), PlainCell(<<TextPipe>>)>> >>

\* cells of tables that may hold nested tables
OuterCells ==
    { [paragraphs |-> <<TextX>>, tables |-> <<>>],
      [paragraphs |-> <<Blank>>, tables |-> <<NestedPad>>],
      [paragraphs |-> <<TextY>>, tables |-> <<NestedZeroRows, NestedBlank>>],
      [paragraphs |-> <<TextX>>, tables |-> <<NestedTruncate, NestedBlank, NestedPad>>] }

RECURSIVE RowsOfLen(_, _)
RowsOfLen(cells, n) ==
    IF n = 0 THEN { <<>> }
    ELSE { <<c>> \o r : c \in cells, r \in RowsOfLen(cells, n - 1) }

\* tables of at most maxRows rows holding at most maxCells cells in all
RECURSIVE TablesWithin(_, _, _)
TablesWithin(cells, maxRows, maxCells) ==
    IF maxRows = 0 THEN { <<>> }
    ELSE { <<>> } \cup
         UNION { { <<r>> \o t : r \in RowsOfLen(cells, k),
                                t \in TablesWithin(cells, maxRows - 1, maxCells - k) }
                 : k \in 0..maxCells }

\* content of the cell in column j of a table whose content follows from its shape
ColumnText(j) ==
    CASE j % 3 = 1 -> TextX
      [] j % 3 = 2 -> TextY
      [] OTHER -> TextPipe

RaggedRow(n) == [j \in 1..n |-> PlainCell(<<ColumnText(j)>>)]

\* every shape of at most maxRows rows and at most maxCells cells in all
RECURSIVE RaggedTablesWithin(_, _)
RaggedTablesWithin(maxRows, maxCells) ==
    IF maxRows = 0 THEN { <<>> }
    ELSE { <<>> } \cup
         UNION { { <<RaggedRow(k)>> \o t : t \in RaggedTablesWithin(maxRows - 1, maxCells - k) }
                 : k \in 0..maxCells }

Tables ==
    TablesWithin(PlainCells, MaxRows, MaxCells)
    \cup RaggedTablesWithin(MaxRows, MaxRaggedCells)
    \cup TablesWithin(OuterCells, MaxRows, MaxOuterCells)

Fragments ==
    { <<"|">>, <<" ">>, <<"\n">>, <<"7">>, <<"%">>,
      Placeholder, <<"T", "o">>, <<"t", "A", "L">> }

RECURSIVE TextsOf(_)
TextsOf(n) ==
    IF n = 0 THEN { <<>> }
    ELSE { <<>> } \cup { f \o t : f \in Fragments, t \in TextsOf(n - 1) }

RawTexts == TextsOf(MaxFragments)

\* no document is being converted
NoDocument ==
    /\ doc = <<>>
    /\ pos = 0
    /\ page_number = 0
    /\ current_lines = <<>>
    /\ markdown_pages = <<>>
    /\ files = <<>>

\* no presentation is being converted
NoConversion ==
    /\ source = "none"
    /\ deck = <<>>
    /\ slide_num = 0
    /\ shape_idx = 0
    /\ chart_counter = 0
    /\ image_counter = 0
    /\ chart_metadata = <<>>
    /\ slide_contents = <<>>
    /\ written = <<>>
    /\ returned = <<>>

\* no folder is being converted
NoListing ==
    /\ listing = <<>>
    /\ file_pos = 0
    /\ calls = <<>>

NoRun == NoConversion /\ NoListing /\ log = <<>>

\* no table is being flattened, no cell normalized
NoTable ==
    /\ table = <<>>
    /\ result = <<>>
    /\ table_data = <<>>
    /\ text = <<>>
    /\ cell_text = <<>>
    /\ cell_again = <<>>

tableVars == <<table, result, table_data, text, cell_text, cell_again>>

(***************************************************************************)
(* The flattener called on one table.                                      *)
(***************************************************************************)
Init ==
    /\ table \in Tables
    /\ pc = "ready"
    /\ result = <<>>
    /\ table_data = <<>>
    /\ text = <<>>
    /\ cell_text = <<>>
    /\ cell_again = <<>>
    /\ NoDocument
    /\ NoRun

ProcessTableProperFormat ==
    /\ pc = "ready"
    /\ result' = process_table_proper_format(table)
    /\ pc' = "flattened"
    /\ UNCHANGED <<table, table_data, text, cell_text, cell_again, pageVars, runVars>>

ExtractTableData ==
    /\ pc = "ready"
    /\ table_data' = extract_table_data(table)
    /\ pc' = "extracted"
    /\ UNCHANGED <<table, result, text, cell_text, cell_again, pageVars, runVars>>

Next == ProcessTableProperFormat \/ ExtractTableData

Spec == Init /\ [][Next]_vars

(***************************************************************************)
(* The cell normalization applied to one raw text, then to its own output. *)
(***************************************************************************)
InitCell ==
    /\ text \in RawTexts
    /\ pc = "ready"
    /\ cell_text = <<>>
    /\ cell_again = <<>>
    /\ table = <<>>
    /\ result = <<>>
    /\ table_data = <<>>
    /\ NoDocument
    /\ NoRun

NormalizeCell ==
    /\ pc = "ready"
    /\ cell_text' = normalize_cell(text)
    /\ pc' = "normalized"
    /\ UNCHANGED <<text, cell_again, table, result, table_data, pageVars, runVars>>

NormalizeAgain ==
    /\ pc = "normalized"
    /\ cell_again' = normalize_cell(cell_text)
    /\ pc' = "renormalized"
    /\ UNCHANGED <<text, cell_text, table, result, table_data, pageVars, runVars>>

NextCell == NormalizeCell \/ NormalizeAgain

SpecCell == InitCell /\ [][NextCell]_vars

(***************************************************************************)
(* word_to_markdown_pages: the body elements of a document are walked in   *)
(* order and their lines collected page by page.  A body element is the    *)
(* record of its tag, of the number of page breaks (w:br of type page)     *)
(* among the element and its descendants, and, by its kind, of the         *)
(* paragraph's text and style name or of the table.                        *)
(***************************************************************************)
DigitChars == <<"0", "1", "2", "3", "4", "5", "6", "7", "8", "9">>

\* str(n) of a natural number
RECURSIVE str(_)
str(n) ==
    IF n < 10 THEN <<DigitChars[n + 1]>>
    ELSE str(n \div 10) \o <<DigitChars[(n % 10) + 1]>>

\* value of one decimal digit
DigitValue(c) == CHOOSE d \in 0..9 : DigitChars[d + 1] = c

\* int(s) of a text of decimal digits
RECURSIVE int(_)
int(s) ==
    IF Len(s) = 1 THEN DigitValue(s[1])
    ELSE 10 * int(SubSeq(s, 1, Len(s) - 1)) + DigitValue(s[Len(s)])

\* s.isdigit()
isdigit(s) == s # <<>> /\ \A i \in 1..Len(s) : IsDigit(s[i])

\* s.startswith(prefix)
startswith(s, prefix) ==
    Len(s) >= Len(prefix) /\ SubSeq(s, 1, Len(prefix)) = prefix

\* s.endswith(suffix)
endswith(s, suffix) ==
    Len(s) >= Len(suffix) /\ SubSeq(s, Len(s) - Len(suffix) + 1, Len(s)) = suffix

\* the longest suffix of s without whitespace
RECURSIVE word_at_end(_)
word_at_end(s) ==
    IF s = <<>> \/ IsSpace(s[Len(s)]) THEN <<>>
    ELSE word_at_end(SubSeq(s, 1, Len(s) - 1)) \o <<s[Len(s)]>>

\* s.split()[-1] of a text that is not blank
last_word(s) == word_at_end(rstrip(s))

\* c * n
RECURSIVE repeat(_, _)
repeat(c, n) == IF n <= 0 THEN <<>> ELSE <<c>> \o repeat(c, n - 1)

OUTPUT_FOLDER ==
    <<"m", "a", "r", "k", "d", "o", "w", "n", "_", "s", "p", "l", "i", "t",
      "_", "p", "a", "g", "e", "s">>

\* f"\n---\n**Page {page_number}**\n---\n"
page_header(n) ==
    <<"\n", "-", "-", "-", "\n", "*", "*", "P", "a", "g", "e", " ">> \o str(n)
    \o <<"*", "*", "\n", "-", "-", "-", "\n">>

\* os.path.join(OUTPUT_FOLDER, f"{base_filename}_page_{page_num}.md")
output_path(base_filename, page_num) ==
    OUTPUT_FOLDER \o <<"/">> \o base_filename \o <<"_", "p", "a", "g", "e", "_">>
    \o str(page_num) \o <<".", "m", "d">>

\* mutant: a page opens only for an element holding exactly one page break
has_page_break_single(element) == element.breaks = 1

\* any(child is a w:br of type page for child in element.iter())
has_page_break(element) == element.breaks > 0

\* lines a paragraph element adds to the page
paragraph_lines(element) ==
    LET stripped == strip(element.text)
        level == last_word(element.style)
    IN  IF stripped = <<>> THEN <<>>
        ELSE IF startswith(element.style, <<"H", "e", "a", "d", "i", "n", "g">>)
             THEN IF isdigit(level)
                  THEN <<repeat("#", int(level)) \o <<" ">> \o stripped, EmptyLine>>
                  ELSE <<<<"#", " ">> \o stripped, EmptyLine>>
             ELSE <<stripped, EmptyLine>>

\* mutant: no empty line follows the table
table_lines_no_separator(element) ==
    process_table_proper_format(element.table)

\* lines a table element adds to the page
table_lines(element) ==
    LET markdown_table == process_table_proper_format(element.table)
    IN  IF markdown_table # <<>> THEN markdown_table \o <<EmptyLine>> ELSE <<>>

\* lines a body element adds to the page
element_lines(element) ==
    IF endswith(element.tag, <<"p">>) THEN paragraph_lines(element)
    ELSE IF endswith(element.tag, <<"t", "b", "l">>) THEN table_lines(element)
    ELSE <<>>

\* body elements of a document
MaxElements == 3

TagP == <<"p">>

TagTbl == <<"t", "b", "l">>

TagSectPr == <<"s", "e", "c", "t", "P", "r">>

StyleNormal == <<"N", "o", "r", "m", "a", "l">>

StyleHeading2 == <<"H", "e", "a", "d", "i", "n", "g", " ", "2">>

StyleHeadingTitle == <<"H", "e", "a", "d", "i", "n", "g", " ", "T">>

ParagraphElement(body, style, breaks) ==
    [tag |-> TagP, breaks |-> breaks, text |-> body, style |-> style, table |-> <<>>]

TableElement(t, breaks) ==
    [tag |-> TagTbl, breaks |-> breaks, text |-> <<>>, style |-> <<>>, table |-> t]

TableBlank == << <<PlainCell(<<Blank>>)>> >>

TableNested ==
    << <<[paragraphs |-> <<TextX>>, tables |-> <<NestedTruncate, NestedBlank>>]>> >>

Elements ==
    { ParagraphElement(<<" ", "x", " ">>, StyleNormal, 0),
      ParagraphElement(TextY, StyleHeading2, 1),
      ParagraphElement(TextX, StyleHeadingTitle, 0),
      ParagraphElement(Blank, StyleNormal, 2),
      TableElement(NestedPad, 0),
      TableElement(TableBlank, 0),
      TableElement(TableNested, 1),
      [tag |-> TagSectPr, breaks |-> 0, text |-> <<>>, style |-> <<>>, table |-> <<>>] }

RECURSIVE DocumentsOf(_)
DocumentsOf(n) ==
    IF n = 0 THEN { <<>> }
    ELSE { <<>> } \cup { <<e>> \o d : e \in Elements, d \in DocumentsOf(n - 1) }

Documents == DocumentsOf(MaxElements)

base_filename == <<"d", "o", "c">>

InitPages ==
    /\ doc \in Documents
    /\ pc = "opened"
    /\ pos = 0
    /\ page_number = 0
    /\ current_lines = <<>>
    /\ markdown_pages = <<>>
    /\ files = <<>>
    /\ NoTable
    /\ NoRun

\* the first page is opened
StartPages ==
    /\ pc = "opened"
    /\ markdown_pages' = <<>>
    /\ page_number' = 1
    /\ current_lines' = <<page_header(1)>>
    /\ pc' = "loop"
    /\ UNCHANGED <<doc, pos, files, tableVars, runVars>>

\* mutant: the page break of an element is looked for after its lines are added
ProcessElement_break_after ==
    /\ pc = "loop"
    /\ pos < Len(doc)
    /\ LET element == doc[pos + 1]
           filled == current_lines \o element_lines(element)
       IN  IF has_page_break(element)
           THEN /\ markdown_pages' = Append(markdown_pages, <<page_number, filled>>)
                /\ page_number' = page_number + 1
                /\ current_lines' = <<page_header(page_number + 1)>>
           ELSE /\ current_lines' = filled
                /\ UNCHANGED <<markdown_pages, page_number>>
    /\ pos' = pos + 1
    /\ UNCHANGED <<pc, doc, files, tableVars, runVars>>

\* one turn of the loop over the body elements
ProcessElement ==
    /\ pc = "loop"
    /\ pos < Len(doc)
    /\ LET element == doc[pos + 1]
       IN  IF has_page_break(element)
           THEN /\ markdown_pages' = Append(markdown_pages, <<page_number, current_lines>>)
                /\ page_number' = page_number + 1
                /\ current_lines' = <<page_header(page_number + 1)>> \o element_lines(element)
           ELSE /\ current_lines' = current_lines \o element_lines(element)
                /\ UNCHANGED <<markdown_pages, page_number>>
    /\ pos' = pos + 1
    /\ UNCHANGED <<pc, doc, files, tableVars, runVars>>

\* the loop is over: the page being filled is finished
FinishPages ==
    /\ pc = "loop"
    /\ pos = Len(doc)
    /\ markdown_pages' = IF current_lines # <<>>
                         THEN Append(markdown_pages, <<page_number, current_lines>>)
                         ELSE markdown_pages
    /\ pc' = "write"
    /\ UNCHANGED <<doc, pos, page_number, current_lines, files, tableVars, runVars>>

\* one turn of the loop that writes the pages
WritePage ==
    /\ pc = "write"
    /\ Len(files) < Len(markdown_pages)
    /\ LET page == markdown_pages[Len(files) + 1]
       IN  files' = Append(files, [path |-> output_path(base_filename, page[1]),
                                   content |-> join(<<"\n">>, page[2])])
    /\ pc' = IF Len(files) + 1 = Len(markdown_pages) THEN "done" ELSE "write"
    /\ UNCHANGED <<doc, pos, page_number, current_lines, markdown_pages, tableVars, runVars>>

NextPages == StartPages \/ ProcessElement \/ FinishPages \/ WritePage

SpecPages == InitPages /\ [][NextPages]_vars

(***************************************************************************)
(* The presentation converter (src/test.py).  A slide is the sequence of   *)
(* its shapes; a shape is the record of its kind (shape.shape_type), of    *)
(* where its processing raises ("type": reading shape_type, "before":      *)
(* inside the handler before the metadata entry is appended, "after":      *)
(* after it, "no": nowhere) and, for a table shape, of the table: the      *)
(* sequence of its rows, a row the sequence of its cells, a cell the       *)
(* record of its text.  The content returned for a chart or an image is    *)
(* the line that links its file; the lines made from the chart's data are  *)
(* left out.                                                               *)
(***************************************************************************)
\* str(uuid.uuid4()), the same through one run
doc_id == <<"u", "u", "i", "d">>

output_dir ==
    <<"c", "o", "n", "v", "e", "r", "t", "e", "d", "_", "p", "r", "e", "s", "e", "n",
      "t", "a", "t", "i", "o", "n">>

data_dir == output_dir \o <<"/", "d", "a", "t", "a">>

images_dir == output_dir \o <<"/", "i", "m", "a", "g", "e", "s">>

charts_dir == output_dir \o <<"/", "c", "h", "a", "r", "t", "s">>

markdown_file == output_dir \o <<"/", "p", "r", "e", "s", "e", "n", "t", "a", "t", "i", "o", "n", ".",
      "m", "d">>

summary_file == output_dir \o <<"/", "c", "h", "a", "r", "t", "s", "_", "s", "u", "m", "m", "a", "r",
      "y", ".", "m", "d">>

metadata_file == output_dir \o <<"/", "m", "e", "t", "a", "d", "a", "t", "a", ".", "j", "s", "o", "n">>

None == [type |-> "None", content |-> <<>>]

\* what a handler hands back: its return value and the state it leaves
Outcome(value, charts, images, metadata, opened, printed) ==
    [value |-> value, chart_counter |-> charts, image_counter |-> images,
     chart_metadata |-> metadata, written |-> opened, log |-> printed]

\* a file opened for writing and, when complete, written to the end
File(path, complete) == [path |-> path, complete |-> complete]

\* f"{kind}_{self.doc_id}_{slide_num}_{number}"
shape_filename(kind, sn, number) ==
    kind \o <<"_">> \o doc_id \o <<"_">> \o str(sn) \o <<"_">> \o str(number)

\* mutant: the chart counter is left as it is
process_chart_no_increment(shape, sn, idx, charts, images, metadata) ==
    LET chart_filename == shape_filename(<<"c", "h", "a", "r", "t">>, sn, charts)
        data_file == data_dir \o <<"/">> \o chart_filename \o <<".", "j", "s", "o", "n">>
        chart_image_path == charts_dir \o <<"/">> \o chart_filename \o <<".", "p", "n", "g">>
        appended == Append(metadata, [slide_num |-> sn, type |-> "chart",
                                      id |-> charts, filename |-> chart_filename])
    IN  IF shape.fails = "before"
        THEN Outcome(None, charts, images, metadata, <<>>,
                     <<[msg |-> "Error processing chart", unit |-> <<sn, idx>>]>>)
        ELSE IF shape.fails = "after"
        THEN Outcome(None, charts, images, appended,
                     <<File(chart_image_path, TRUE), File(data_file, TRUE)>>,
                     <<[msg |-> "Error processing chart", unit |-> <<sn, idx>>]>>)
        ELSE Outcome([type |-> "chart", content |-> <<chart_filename>>],
                     charts, images, appended,
                     <<File(chart_image_path, TRUE), File(data_file, TRUE)>>, <<>>)

\* _process_chart
process_chart(shape, sn, idx, charts, images, metadata) ==
    LET counter == charts + 1
        chart_filename == shape_filename(<<"c", "h", "a", "r", "t">>, sn, counter)
        data_file == data_dir \o <<"/">> \o chart_filename \o <<".", "j", "s", "o", "n">>
        chart_image_path == charts_dir \o <<"/">> \o chart_filename \o <<".", "p", "n", "g">>
        appended == Append(metadata, [slide_num |-> sn, type |-> "chart",
                                      id |-> counter, filename |-> chart_filename])
    IN  IF shape.fails = "before"
        THEN Outcome(None, counter, images, metadata, <<>>,
                     <<[msg |-> "Error processing chart", unit |-> <<sn, idx>>]>>)
        ELSE IF shape.fails = "after"
        THEN Outcome(None, counter, images, appended,
                     <<File(chart_image_path, TRUE), File(data_file, TRUE)>>,
                     <<[msg |-> "Error processing chart", unit |-> <<sn, idx>>]>>)
        ELSE Outcome([type |-> "chart", content |-> <<chart_filename>>],
                     counter, images, appended,
                     <<File(chart_image_path, TRUE), File(data_file, TRUE)>>, <<>>)

\* _process_image
process_image(shape, sn, idx, charts, images, metadata) ==
    LET counter == images + 1
        image_filename == shape_filename(<<"i", "m", "a", "g", "e">>, sn, counter)
        image_path == images_dir \o <<"/">> \o image_filename \o <<".", "p", "n", "g">>
        appended == Append(metadata, [slide_num |-> sn, type |-> "image",
                                      id |-> counter, filename |-> image_filename])
    IN  IF shape.fails = "before"
        THEN Outcome(None, charts, counter, metadata, <<>>,
                     <<[msg |-> "Error processing image", unit |-> <<sn, idx>>]>>)
        ELSE IF shape.fails = "after"
        THEN Outcome(None, charts, counter, appended, <<File(image_path, TRUE)>>,
                     <<[msg |-> "Error processing image", unit |-> <<sn, idx>>]>>)
        ELSE Outcome([type |-> "image", content |-> <<image_filename>>],
                     charts, counter, appended, <<File(image_path, TRUE)>>, <<>>)

\* cell.text.strip().replace('\n', ' ').replace('|', '\\|')
pptx_cell_text(cell) ==
    replace(replace(strip(cell.text), "\n", <<" ">>), "|", <<"\\", "|">>)

\* table_data['rows']
pptx_rows(t) ==
    [i \in 1..Len(t) |-> [j \in 1..Len(t[i]) |-> pptx_cell_text(t[i][j])]]

\* "| " + " | ".join(row) + " |"
markdown_row(row) ==
    <<"|", " ">> \o join(<<" ", "|", " ">>, row) \o <<" ", "|">>

\* "|" + "---|" * n
RECURSIVE markdown_separator(_)
markdown_separator(n) ==
    IF n <= 0 THEN <<"|">>
    ELSE markdown_separator(n - 1) \o <<"-", "-", "-", "|">>

\* the lines of the table and of the link to its data
markdown_table(rows, rel_data_path) ==
    <<markdown_row(rows[1]), markdown_separator(Len(rows[1]))>>
    \o [i \in 1..(Len(rows) - 1) |-> markdown_row(rows[i + 1])]
    \o <<EmptyLine,
         <<"CLIPBOARD">> \o <<" ", "[", "V", "i", "e", "w", " ", "T", "a", "b", "l", "e", " ", "D",
      "a", "t", "a", "]", "(">> \o rel_data_path \o <<")", "\n">>>>

\* _process_table
process_table(shape, sn, idx, charts, images, metadata) ==
    LET table_filename == shape_filename(<<"t", "a", "b", "l", "e">>, sn, idx)
        rows == pptx_rows(shape.table)
        data_file == data_dir \o <<"/">> \o table_filename \o <<".", "j", "s", "o", "n">>
        rel_data_path == <<"d", "a", "t", "a", "/">> \o table_filename \o <<".", "j", "s", "o", "n">>
        appended == Append(metadata, [slide_num |-> sn, type |-> "table",
                                      id |-> idx, filename |-> table_filename])
    IN  IF shape.fails = "before"
        THEN Outcome(None, charts, images, metadata, <<>>,
                     <<[msg |-> "Error processing table", unit |-> <<sn, idx>>]>>)
        ELSE IF rows = <<>>
        THEN Outcome(None, charts, images, metadata, <<>>, <<>>)
        ELSE IF shape.fails = "after"
        THEN Outcome(None, charts, images, appended, <<File(data_file, TRUE)>>,
                     <<[msg |-> "Error processing table", unit |-> <<sn, idx>>]>>)
        ELSE Outcome([type |-> "table", content |-> markdown_table(rows, rel_data_path)],
                     charts, images, appended, <<File(data_file, TRUE)>>, <<>>)

\* _process_text of a shape with one paragraph
process_text(shape, sn, idx, charts, images, metadata) ==
    IF shape.fails \in {"before", "after"}
    THEN Outcome(None, charts, images, metadata, <<>>,
                 <<[msg |-> "Error processing text", unit |-> <<sn, idx>>]>>)
    ELSE Outcome([type |-> "text", content |-> <<<<"t", "e", "x", "t">>, EmptyLine>>],
                 charts, images, metadata, <<>>, <<>>)

\* _process_shape
process_shape(shape, sn, idx, charts, images, metadata) ==
    IF shape.fails = "type"
    THEN Outcome(None, charts, images, metadata, <<>>,
                 <<[msg |-> "Error processing shape", unit |-> <<sn, idx>>]>>)
    ELSE IF shape.kind = "chart" THEN process_chart(shape, sn, idx, charts, images, metadata)
    ELSE IF shape.kind = "picture" THEN process_image(shape, sn, idx, charts, images, metadata)
    ELSE IF shape.kind = "table" THEN process_table(shape, sn, idx, charts, images, metadata)
    ELSE process_text(shape, sn, idx, charts, images, metadata)

\* slides of a presentation
MaxSlides == 2

\* shapes of a presentation, all slides together
MaxShapes == 3

Shape(kind, fails) == [kind |-> kind, fails |-> fails, table |-> <<>>]

TableShape(t) == [kind |-> "table", fails |-> "no", table |-> t]

PptxCell(t) == [text |-> t]

PptxCells ==
    { PptxCell(<<"a">>), PptxCell(<<" ", "b", "|", "c", "\n", "d", " ">>), PptxCell(<<>>) }

PptxTables == TablesWithin(PptxCells, MaxRows, MaxOuterCells)

Shapes ==
    { Shape("chart", "no"), Shape("chart", "before"),
      Shape("picture", "no"), Shape("picture", "after"),
      Shape("text", "type") }

\* at most maxSlides slides, none empty, holding at most maxShapes shapes in all
RECURSIVE DecksWithin(_, _)
DecksWithin(maxSlides, maxShapes) ==
    IF maxSlides = 0 THEN { <<>> }
    ELSE { <<>> } \cup
         UNION { { <<slide>> \o d : slide \in RowsOfLen(Shapes, k),
                                    d \in DecksWithin(maxSlides - 1, maxShapes - k) }
                 : k \in 1..maxShapes }

\* presentations of several slides, with an empty slide, and of one table
Decks ==
    DecksWithin(MaxSlides, MaxShapes)
    \cup { << <<>> >>, << <<>>, <<Shape("text", "no"), Shape("chart", "no")>> >> }
    \cup { << <<TableShape(t)>> >> : t \in PptxTables }

InitConvert ==
    /\ \/ source = "file" /\ deck \in Decks
       \/ source \in {"missing", "unreadable"} /\ deck = <<>>
    /\ pc = "created"
    /\ slide_num = 0
    /\ shape_idx = 0
    /\ chart_counter = 0
    /\ image_counter = 0
    /\ chart_metadata = <<>>
    /\ slide_contents = <<>>
    /\ written = <<>>
    /\ returned = <<>>
    /\ log = <<>>
    /\ NoListing
    /\ NoTable
    /\ NoDocument

\* what convert does when a step raises
conversion_fails(opened) ==
    /\ written' = written \o opened
    /\ returned' = <<"None">>
    /\ log' = Append(log, [msg |-> "Error during conversion", unit |-> <<>>])
    /\ pc' = "returned"

\* the source is looked for and loaded
OpenPresentation ==
    /\ pc = "created"
    /\ IF source = "file"
       THEN /\ pc' = IF deck = <<>> THEN "write" ELSE "slides"
            /\ slide_num' = 1
            /\ UNCHANGED <<written, returned, log>>
       ELSE /\ conversion_fails(<<>>)
            /\ UNCHANGED slide_num
    /\ UNCHANGED <<source, deck, shape_idx, chart_counter, image_counter,
                   chart_metadata, slide_contents>>
    /\ UNCHANGED <<bulkVars, tableVars, pageVars>>

\* one turn of the loop over the shapes of a slide
ProcessShape ==
    /\ pc = "slides"
    /\ shape_idx < Len(deck[slide_num])
    /\ LET out == process_shape(deck[slide_num][shape_idx + 1], slide_num, shape_idx,
                                chart_counter, image_counter, chart_metadata)
       IN  /\ chart_counter' = out.chart_counter
           /\ image_counter' = out.image_counter
           /\ chart_metadata' = out.chart_metadata
           /\ written' = written \o out.written
           /\ log' = log \o out.log
           /\ slide_contents' =
                  IF out.value # None
                  THEN Append(slide_contents,
                              [slide_num |-> slide_num, shape_idx |-> shape_idx,
                               type |-> out.value.type, content |-> out.value.content])
                  ELSE slide_contents
    /\ shape_idx' = shape_idx + 1
    /\ UNCHANGED <<pc, returned, source, deck, slide_num>>
    /\ UNCHANGED <<bulkVars, tableVars, pageVars>>

\* the shapes of the slide are done: on to the next slide
FinishSlide ==
    /\ pc = "slides"
    /\ shape_idx = Len(deck[slide_num])
    /\ slide_num' = slide_num + 1
    /\ shape_idx' = 0
    /\ pc' = IF slide_num = Len(deck) THEN "write" ELSE "slides"
    /\ UNCHANGED <<source, deck, chart_counter, image_counter, chart_metadata,
                   slide_contents, written, returned, log>>
    /\ UNCHANGED <<bulkVars, tableVars, pageVars>>

\* presentation.md is written
WriteMarkdown ==
    /\ pc = "write"
    /\ written' = Append(written, File(markdown_file, TRUE))
    /\ pc' = "summary"
    /\ UNCHANGED <<source, deck, slide_num, shape_idx, chart_counter, image_counter,
                   chart_metadata, slide_contents, returned, log>>
    /\ UNCHANGED <<bulkVars, tableVars, pageVars>>

\* _generate_chart_summary
GenerateChartSummary ==
    /\ pc = "summary"
    /\ written' = Append(written, File(summary_file, TRUE))
    /\ pc' = "metadata"
    /\ UNCHANGED <<source, deck, slide_num, shape_idx, chart_counter, image_counter,
                   chart_metadata, slide_contents, returned, log>>
    /\ UNCHANGED <<bulkVars, tableVars, pageVars>>

\* mutant: the path is returned without metadata.json being written
GenerateMetadata_not_written ==
    /\ pc = "metadata"
    /\ returned' = markdown_file
    /\ pc' = "returned"
    /\ UNCHANGED <<source, deck, slide_num, shape_idx, chart_counter, image_counter,
                   chart_metadata, slide_contents, written, log>>
    /\ UNCHANGED <<bulkVars, tableVars, pageVars>>

\* _generate_metadata, and the return of the path
GenerateMetadata ==
    /\ pc = "metadata"
    /\ written' = Append(written, File(metadata_file, TRUE))
    /\ returned' = markdown_file
    /\ pc' = "returned"
    /\ UNCHANGED <<source, deck, slide_num, shape_idx, chart_counter, image_counter,
                   chart_metadata, slide_contents, log>>
    /\ UNCHANGED <<bulkVars, tableVars, pageVars>>

\* the file a step of convert writes
output_file(step) ==
    CASE step = "write" -> markdown_file
      [] step = "summary" -> summary_file
      [] step = "metadata" -> metadata_file

\* a step raises outside the shape handlers: a slide before its shapes are looked
\* at, a step that writes before its file is opened or after
StepRaises ==
    /\ \/ pc = "slides" /\ shape_idx = 0 /\ conversion_fails(<<>>)
       \/ pc \in {"write", "summary", "metadata"}
          /\ \E opened \in {<<>>, <<File(output_file(pc), FALSE)>>} :
                conversion_fails(opened)
    /\ UNCHANGED <<source, deck, slide_num, shape_idx, chart_counter, image_counter,
                   chart_metadata, slide_contents>>
    /\ UNCHANGED <<bulkVars, tableVars, pageVars>>

NextConvert ==
    \/ OpenPresentation
    \/ ProcessShape
    \/ FinishSlide
    \/ WriteMarkdown
    \/ GenerateChartSummary
    \/ GenerateMetadata
    \/ StepRaises

SpecConvert == InitConvert /\ [][NextConvert]_vars

(***************************************************************************)
(* The bulk loop of the document converter (src/new.py).  A file of the    *)
(* input folder is the record of its name, of what it is as an archive     *)
(* ("not_zip", "no_document": a zip without word/document.xml, "docx") and *)
(* of whether word_to_markdown_pages raises on it.                         *)
(***************************************************************************)
\* files of the input folder
MaxFiles == 3

InputFile(name, archive, raises) == [name |-> name, archive |-> archive, raises |-> raises]

InputFiles ==
    { InputFile(<<"a", ".", "t", "x", "t">>, "not_zip", FALSE),
      InputFile(<<"b", ".", "d", "o", "c", "x">>, "not_zip", FALSE),
      InputFile(<<"c", ".", "d", "o", "c", "x">>, "no_document", FALSE),
      InputFile(<<"d", ".", "d", "o", "c", "x">>, "docx", TRUE),
      InputFile(<<"e", ".", "d", "o", "c", "x">>, "docx", FALSE) }

\* listings of at most n of the files, no file twice
RECURSIVE ListingsOf(_, _)
ListingsOf(n, among) ==
    IF n = 0 THEN { <<>> }
    ELSE { <<>> } \cup
         UNION { { <<f>> \o l : l \in ListingsOf(n - 1, among \ {f}) } : f \in among }

Listings == ListingsOf(MaxFiles, InputFiles)

\* is_valid_docx
is_valid_docx(file) == file.archive = "docx"

\* os.path.splitext(filename)[0] of a name that ends with .docx
base_name(filename) == SubSeq(filename, 1, Len(filename) - 5)

InitBulk ==
    /\ listing \in Listings
    /\ pc = "listing"
    /\ file_pos = 0
    /\ calls = <<>>
    /\ log = <<>>
    /\ NoConversion
    /\ NoTable
    /\ NoDocument

\* mutant: an error of the conversion ends the loop
ProcessFile_stops_on_error ==
    /\ pc = "listing"
    /\ file_pos < Len(listing)
    /\ LET file == listing[file_pos + 1]
       IN  IF ~ endswith(file.name, <<".", "d", "o", "c", "x">>)
           THEN UNCHANGED <<calls, log, pc>>
           ELSE IF ~ is_valid_docx(file)
           THEN /\ log' = Append(log, [msg |-> "Skipping invalid file", unit |-> file.name])
                /\ UNCHANGED <<calls, pc>>
           ELSE /\ calls' = Append(calls, base_name(file.name))
                /\ log' = log
                       \o <<[msg |-> "Processing", unit |-> file.name]>>
                       \o (IF file.raises
                           THEN <<[msg |-> "Error in", unit |-> file.name]>>
                           ELSE <<>>)
                /\ pc' = IF file.raises THEN "listed" ELSE pc
    /\ file_pos' = file_pos + 1
    /\ UNCHANGED <<listing, convertVars, tableVars, pageVars>>

\* one turn of the loop over the files of the input folder
ProcessFile ==
    /\ pc = "listing"
    /\ file_pos < Len(listing)
    /\ LET file == listing[file_pos + 1]
       IN  IF ~ endswith(file.name, <<".", "d", "o", "c", "x">>)
           THEN UNCHANGED <<calls, log>>
           ELSE IF ~ is_valid_docx(file)
           THEN /\ log' = Append(log, [msg |-> "Skipping invalid file", unit |-> file.name])
                /\ UNCHANGED calls
           ELSE /\ calls' = Append(calls, base_name(file.name))
                /\ log' = log
                       \o <<[msg |-> "Processing", unit |-> file.name]>>
                       \o (IF file.raises
                           THEN <<[msg |-> "Error in", unit |-> file.name]>>
                           ELSE <<>>)
    /\ file_pos' = file_pos + 1
    /\ UNCHANGED <<pc, listing, convertVars, tableVars, pageVars>>

\* the loop is over
FinishListing ==
    /\ pc = "listing"
    /\ file_pos = Len(listing)
    /\ pc' = "listed"
    /\ UNCHANGED <<listing, file_pos, calls, log, convertVars, tableVars, pageVars>>

NextBulk == ProcessFile \/ FinishListing

(***************************************************************************)
(* Either program is run: the bulk loop over a folder, or the conversion   *)
(* of a presentation.                                                      *)
(***************************************************************************)
InitUnits == InitBulk \/ InitConvert

NextUnits == NextBulk \/ NextConvert

SpecUnits == InitUnits /\ [][NextUnits]_vars

(***************************************************************************)
(* Reading a result back: lines, delimiters, cells, tables.                *)
(***************************************************************************)
IsPipe(c) == c = "|"

PipeCount(line) == Len(SelectSeq(line, IsPipe))

\* the k-th smallest element of a set of integers
KthOf(S, k) == CHOOSE i \in S : Cardinality({ j \in S : j < i }) = k - 1

\* number of pipe-delimited cells of a line
CellCount(line) == PipeCount(line) - 1

\* the pieces of a line between its pipes, the piece before the first pipe included
RECURSIVE SplitAtPipes(_, _)
SplitAtPipes(line, piece) ==
    IF line = <<>> THEN <<piece>>
    ELSE IF Head(line) = "|" THEN <<piece>> \o SplitAtPipes(Tail(line), <<>>)
    ELSE SplitAtPipes(Tail(line), Append(piece, Head(line)))

\* the texts between consecutive delimiters, without the space on either side
Fields(line) ==
    LET pieces == SplitAtPipes(line, <<>>)
    IN  [k \in 1..(Len(pieces) - 2) |-> SubSeq(pieces[k + 1], 2, Len(pieces[k + 1]) - 1)]

\* the line is '| c1 | ... | cW |' for W >= 1 non-empty cells
WellFormedLine(line) ==
    LET cells == Fields(line)
    IN  /\ Len(cells) >= 1
        /\ \A k \in 1..Len(cells) : cells[k] # <<>>
        /\ line = table_line(cells)

\* index of the first line of the table that line i of res belongs to
HeaderIndex(res, i) ==
    CHOOSE h \in 1..i :
        /\ h = 1 \/ res[h - 1] = EmptyLine
        /\ \A j \in h..i : res[j] # EmptyLine

IsHeaderIndex(res, i) ==
    res[i] # EmptyLine /\ HeaderIndex(res, i) = i

IsBodyIndex(res, i) ==
    res[i] # EmptyLine /\ i >= HeaderIndex(res, i) + 2

IsBlankText(t) == \A i \in 1..Len(t) : IsSpace(t[i])

\* every cell of the row is empty or whitespace-only
IsBlankRow(row) ==
    \A j \in 1..Len(row) :
        \A p \in 1..Len(row[j].paragraphs) : IsBlankText(row[j].paragraphs[p])

\* normalized cells of row i of t
NormalizedRow(t, i) == row_data(t[i])

\* indices of the rows with at least one non-placeholder normalized cell
SurvivingRows(t) ==
    { i \in 1..Len(t) :
        \E j \in 1..Len(t[i]) : NormalizedRow(t, i)[j] # Placeholder }

\* the normalized surviving rows, in row order
RECURSIVE SurvivingFrom(_, _)
SurvivingFrom(t, i) ==
    IF i > Len(t) THEN <<>>
    ELSE (IF i \in SurvivingRows(t) THEN <<NormalizedRow(t, i)>> ELSE <<>>)
         \o SurvivingFrom(t, i + 1)

Surviving(t) == SurvivingFrom(t, 1)

\* positions <<row, cell, nested table>> of the nested tables of t
AllNestedPositions(t) ==
    UNION { UNION { { <<i, j, k>> : k \in 1..Len(t[i][j].tables) }
                    : j \in 1..Len(t[i]) }
            : i \in 1..Len(t) }

NestedAt(t, x) == t[x[1]][x[2]].tables[x[3]]

NestedTableSet(t) == { NestedAt(t, x) : x \in AllNestedPositions(t) }

Flattened == pc = "flattened"

\* some cell of the table holds a nested table
Nested == AllNestedPositions(table) # {}

Regular == ~ Nested

Min(a, b) == IF a < b THEN a ELSE b

(***************************************************************************)
(* C1: in every table of a non-empty result, regular or nested variant,    *)
(* every body-row line has exactly as many pipe-delimited cells as the     *)
(* header line of the table it belongs to.                                 *)
(***************************************************************************)
C1_WidthInvariant ==
    Flattened =>
        \A i \in 1..Len(result) :
            IsBodyIndex(result, i) =>
                CellCount(result[i]) = CellCount(result[HeaderIndex(result, i)])

\* a nested result with a padded and a truncated body row, and a regular one
C1_Witness ==
    /\ Flattened /\ Nested
    /\ \E i \in 1..Len(table) : \E j \in 1..Len(table[i]) :
          table[i][j].tables = <<NestedTruncate, NestedBlank, NestedPad>>
    /\ \E i \in 1..Len(result) : IsBodyIndex(result, i)

(***************************************************************************)
(* C2: the body line of a surviving row with n cells under a header of     *)
(* width W holds the row's first min(n, W) normalized cells in order,      *)
(* followed by W - n placeholders when n < W; later cells are discarded.   *)
(***************************************************************************)
C2_PadTruncate ==
    (Flattened /\ Regular) =>
        LET data == Surviving(table)
        IN  \A k \in 2..Len(data) :
                /\ Len(result) >= k + 1
                /\ Fields(result[k + 1]) =
                       [i \in 1..Len(data[1]) |->
                           IF i <= Len(data[k]) THEN data[k][i] ELSE Placeholder]

\* one body row shorter than the header and one longer
C2_Witness ==
    /\ Flattened /\ Regular
    /\ \E k \in 2..Len(Surviving(table)) :
          Len(Surviving(table)[k]) < Len(Surviving(table)[1])
    /\ \E k \in 2..Len(Surviving(table)) :
          Len(Surviving(table)[k]) > Len(Surviving(table)[1])

(***************************************************************************)
(* C3: rows whose cells are all empty or whitespace-only are excluded      *)
(* before the header is chosen; the header is the first row with a         *)
(* non-placeholder normalized cell, its cell count is the width, and no    *)
(* output line corresponds to a dropped row.                               *)
(***************************************************************************)
C3_BlankRowsDropped ==
    (Flattened /\ Regular) =>
        LET kept == SurvivingRows(table)
        IN  /\ \A i \in 1..Len(table) : IsBlankRow(table[i]) => i \notin kept
            /\ kept = {} => result = <<>>
            /\ kept # {} =>
                  /\ Len(result) = Cardinality(kept) + 1
                  /\ Fields(result[1]) = NormalizedRow(table, KthOf(kept, 1))
                  /\ CellCount(result[2]) = Len(table[KthOf(kept, 1)])

\* the first row is blank and a later row becomes the header
C3_Witness ==
    /\ Flattened /\ Regular
    /\ Len(table) >= 3
    /\ IsBlankRow(table[1]) /\ Len(table[1]) >= 1
    /\ Cardinality(SurvivingRows(table)) = 2

(***************************************************************************)
(* C4: flattening a table with zero rows yields the empty sequence, from   *)
(* process_table_proper_format and from extract_table_data.                *)
(***************************************************************************)
C4_ZeroRows ==
    table = <<>> =>
        /\ Flattened => result = <<>>
        /\ pc = "extracted" => table_data = <<>>

C4_Witness == Flattened /\ table = <<>>

(***************************************************************************)
(* C5: the result is either empty or a sequence of complete tables: each   *)
(* starts with a header line of W >= 1 cells followed by its separator     *)
(* line; no header without separator, no body line without header.         *)
(***************************************************************************)
C5_NoPartialTable ==
    Flattened =>
        /\ result # <<>> => result[1] # EmptyLine /\ result[Len(result)] # EmptyLine
        /\ \A i \in 1..Len(result) :
              /\ (i > 1 /\ result[i] = EmptyLine) => result[i - 1] # EmptyLine
              /\ result[i] # EmptyLine => WellFormedLine(result[i])
              /\ IsHeaderIndex(result, i) =>
                    /\ i + 1 <= Len(result)
                    /\ result[i + 1] =
                          table_line([k \in 1..CellCount(result[i]) |-> <<"-", "-", "-">>])

\* a ragged table with a row of zero cells and a dropped row
C5_Witness ==
    /\ Flattened /\ Regular
    /\ result # <<>>
    /\ \E i \in 1..Len(table) : Len(table[i]) = 0
    /\ \E i \in 1..Len(table) : Len(table[i]) > 0 /\ i \notin SurvivingRows(table)

(***************************************************************************)
(* C6: a table without nested tables and with k >= 1 surviving rows        *)
(* yields exactly k + 1 lines: the header line '| c1 | ... | cW |', a      *)
(* separator line of W groups of three dashes, then one line per           *)
(* surviving body row in the original row order.                           *)
(***************************************************************************)
C6_RegularLayout ==
    (Flattened /\ Regular /\ SurvivingRows(table) # {}) =>
        LET data == Surviving(table)
            k == Len(data)
            W == Len(data[1])
        IN  /\ k = Cardinality(SurvivingRows(table))
            /\ Len(result) = k + 1
            /\ WellFormedLine(result[1])
            /\ Fields(result[1]) = data[1]
            /\ result[2] = <<"|">> \o flatten([i \in 1..W |-> <<" ", "-", "-", "-", " ", "|">>])
            /\ \A j \in 2..k :
                  LET cells == Fields(result[j + 1])
                  IN  /\ WellFormedLine(result[j + 1])
                      /\ Len(cells) >= Min(W, Len(data[j]))
                      /\ \A i \in 1..Min(W, Len(data[j])) : cells[i] = data[j][i]

\* a header and two body rows that differ
C6_Witness ==
    /\ Flattened /\ Regular
    /\ Len(Surviving(table)) = 3
    /\ Surviving(table)[2] # Surviving(table)[3]

(***************************************************************************)
(* C7: when a cell of the table holds a nested table, the result holds     *)
(* only renderings of nested tables: every line comes from a nested        *)
(* table, the paragraph texts of the outer cells have no influence on      *)
(* the result, and the result is empty when every nested table flattens    *)
(* to nothing.                                                             *)
(***************************************************************************)
LinesOf(lines) == { lines[i] : i \in 1..Len(lines) }

\* the same table with every outer paragraph removed
EraseMainContent(t) ==
    [i \in 1..Len(t) |->
        [j \in 1..Len(t[i]) |-> [paragraphs |-> <<>>, tables |-> t[i][j].tables]]]

C7_OnlyNestedContent ==
    (Flattened /\ Nested) =>
        /\ \A i \in 1..Len(result) :
              result[i] # EmptyLine =>
                  \E nt \in NestedTableSet(table) : result[i] \in LinesOf(process_regular_table(nt))
        /\ (\A nt \in NestedTableSet(table) : process_regular_table(nt) = <<>>) => result = <<>>
        /\ result = process_table_proper_format(EraseMainContent(table))

\* outer text in a cell with nested tables and in a cell without
C7_Witness ==
    /\ Flattened
    /\ result # <<>>
    /\ \E i \in 1..Len(table) : \E j \in 1..Len(table[i]) :
          table[i][j].tables # <<>> /\ cell_text_parts(table[i][j]) # <<>>
    /\ \E i \in 1..Len(table) : \E j \in 1..Len(table[i]) :
          table[i][j].tables = <<>> /\ cell_text_parts(table[i][j]) # <<>>

(***************************************************************************)
(* C8: the nested-variant result is the concatenation of the flattenings   *)
(* of the nested tables in row, cell, nested-table order, with exactly     *)
(* one empty line between consecutive outputs, none before the first or    *)
(* after the last, and none for a nested table that flattens to nothing.   *)
(***************************************************************************)
\* positions of the nested tables with a non-empty flattening
NestedPositions(t) ==
    { x \in AllNestedPositions(t) : process_regular_table(NestedAt(t, x)) # <<>> }

Before(a, b) ==
    \/ a[1] < b[1]
    \/ a[1] = b[1] /\ a[2] < b[2]
    \/ a[1] = b[1] /\ a[2] = b[2] /\ a[3] < b[3]

\* the flattenings of the nested tables at the given positions, in position order
FlatteningsAt(t, positions) ==
    [n \in 1..Cardinality(positions) |->
        LET x == CHOOSE x \in positions :
                     Cardinality({ y \in positions : Before(y, x) }) = n - 1
        IN  process_regular_table(NestedAt(t, x))]

NestedFlattenings(t) == FlatteningsAt(t, NestedPositions(t))

C8_NestedConcatenation ==
    (Flattened /\ Nested) =>
        /\ result = join(<<EmptyLine>>, NestedFlattenings(table))
        /\ Cardinality({ i \in 1..Len(result) : result[i] = EmptyLine }) =
              (IF NestedPositions(table) = {} THEN 0
               ELSE Cardinality(NestedPositions(table)) - 1)

\* nested tables in two cells, one of them flattening to nothing
C8_Witness ==
    /\ Flattened
    /\ Cardinality(NestedPositions(table)) >= 3
    /\ \E nt \in NestedTableSet(table) : process_regular_table(nt) = <<>>
    /\ Cardinality({ <<x[1], x[2]>> : x \in NestedPositions(table) }) >= 2

(***************************************************************************)
(* C9: cell normalization is idempotent: normalizing the normalized form   *)
(* of a raw cell text yields the normalized form again.                    *)
(***************************************************************************)
C9_Idempotent ==
    pc = "renormalized" => cell_again = cell_text

\* a raw text with a pipe and a percent pattern that normalization changes
C9_Witness ==
    /\ pc = "renormalized"
    /\ Contains(text, <<"|">>)
    /\ Contains(text, <<" ", "%">>)
    /\ Contains(cell_text, <<"7", "%">>)

(***************************************************************************)
(* C10: no normalized cell holds a literal pipe, so every header or body   *)
(* line of a table of width W holds exactly W + 1 pipes, whatever pipes    *)
(* the raw cell texts held.                                                *)
(***************************************************************************)
C10_PipesAreDelimiters ==
    /\ pc = "extracted" =>
          \A r \in 1..Len(table_data) : \A c \in 1..Len(table_data[r]) :
              ~ Contains(table_data[r][c], <<"|">>)
    /\ (Flattened /\ Regular /\ SurvivingRows(table) # {}) =>
          \A i \in 1..Len(result) :
              i # 2 => PipeCount(result[i]) = Len(table[KthOf(SurvivingRows(table), 1)]) + 1

HasRawPipe(row) ==
    \E j \in 1..Len(row) : \E p \in 1..Len(row[j].paragraphs) :
        Contains(row[j].paragraphs[p], <<"|">>)

\* raw pipes in the header row and in a body row
C10_Witness ==
    /\ Flattened /\ Regular
    /\ Cardinality(SurvivingRows(table)) >= 2
    /\ \A i \in SurvivingRows(table) : HasRawPipe(table[i])

(***************************************************************************)
(* C11: a cell whose cleaned text holds 'total' in any letter case         *)
(* normalizes to exactly Total, and no other cell does.                    *)
(***************************************************************************)
\* the cell text after pipe escape, whitespace cleanup and percent tightening
CleanedText(t) ==
    tighten_percent(strip(collapse_whitespace(
        replace(replace(replace(replace(t, "|", PipeEntity),
                "\n", <<" ">>), "\r", <<" ">>), "\t", <<" ">>))))

HasTotalAnyCase(s) ==
    \E i \in 1..(Len(s) - 4) :
        /\ s[i] \in {"t", "T"}
        /\ s[i + 1] \in {"o", "O"}
        /\ s[i + 2] \in {"t", "T"}
        /\ s[i + 3] \in {"a", "A"}
        /\ s[i + 4] \in {"l", "L"}

TotalText == <<"T", "o", "t", "a", "l">>

C11_TotalCollapse ==
    pc = "normalized" =>
        (HasTotalAnyCase(CleanedText(text)) <=> cell_text = TotalText)

\* the word in mixed case inside a longer text
C11_Witness ==
    /\ pc = "normalized"
    /\ cell_text = TotalText
    /\ Len(text) > Len(TotalText)
    /\ ~ Contains(text, <<"t", "o", "t", "a", "l">>)

(***************************************************************************)
(* C12 as stated: a normalized cell is the placeholder exactly when the    *)
(* raw text is empty or whitespace-only, and otherwise a non-empty text    *)
(* without leading or trailing whitespace, newline, carriage return or     *)
(* tab, and without two consecutive whitespace characters.                 *)
(***************************************************************************)
IsTidyText(s) ==
    /\ s # <<>>
    /\ ~ IsSpace(s[1])
    /\ ~ IsSpace(s[Len(s)])
    /\ \A i \in 1..Len(s) : s[i] \notin {"\n", "\r", "\t"}
    /\ \A i \in 1..(Len(s) - 1) : ~ (IsSpace(s[i]) /\ IsSpace(s[i + 1]))

C12_Original ==
    pc = "normalized" =>
        /\ cell_text = Placeholder <=> IsBlankText(text)
        /\ cell_text # Placeholder => IsTidyText(cell_text)

(***************************************************************************)
(* C12 amended: a normalized cell is the placeholder exactly when the raw  *)
(* text is empty, whitespace-only, or the placeholder glyph itself with    *)
(* optional whitespace around it; every other normalized cell is a         *)
(* non-empty text without leading or trailing whitespace, newline,         *)
(* carriage return or tab, and without two consecutive whitespace          *)
(* characters.                                                             *)
(***************************************************************************)
\* the text without the whitespace at its ends
RECURSIVE Trimmed(_)
Trimmed(s) ==
    IF s = <<>> THEN s
    ELSE IF IsSpace(s[1]) THEN Trimmed(Tail(s))
    ELSE IF IsSpace(s[Len(s)]) THEN Trimmed(SubSeq(s, 1, Len(s) - 1))
    ELSE s

C12_PlaceholderOrTidy ==
    pc = "normalized" =>
        /\ cell_text = Placeholder <=> (IsBlankText(text) \/ Trimmed(text) = Placeholder)
        /\ cell_text # Placeholder => IsTidyText(cell_text)

\* a raw text with whitespace at both ends and a run of whitespace inside
C12_Witness ==
    /\ pc = "normalized"
    /\ cell_text # Placeholder
    /\ IsSpace(text[1]) /\ IsSpace(text[Len(text)])
    /\ Contains(text, <<"\n", " ">>)
    /\ Len(cell_text) >= 2

(***************************************************************************)
(* C13: a table element whose flattening is non-empty adds to the page     *)
(* the table's lines followed by exactly one empty line; a table element   *)
(* whose flattening is empty adds no line at all.                          *)
(***************************************************************************)
IsTableElement(e) == e.tag = TagTbl

\* the lines of the page an element is added to, before it is added
PageBefore(e) ==
    IF e.breaks > 0 THEN <<page_header(page_number + 1)>> ELSE current_lines

C13_TableSeparator ==
    [][ (pc = "loop" /\ pos < Len(doc) /\ IsTableElement(doc[pos + 1])) =>
          LET flat == process_table_proper_format(doc[pos + 1].table)
          IN  current_lines' =
                  PageBefore(doc[pos + 1])
                  \o (IF flat # <<>> THEN flat \o <<EmptyLine>> ELSE <<>>) ]_vars

\* a table with lines, then a table without, both added to the first page
C13_Witness ==
    /\ pc = "loop"
    /\ pos = 2
    /\ IsTableElement(doc[1]) /\ IsTableElement(doc[2])
    /\ process_table_proper_format(doc[1].table) # <<>>
    /\ process_table_proper_format(doc[2].table) = <<>>
    /\ current_lines = <<page_header(1)>>
                       \o process_table_proper_format(doc[1].table) \o <<EmptyLine>>

(***************************************************************************)
(* C15 as stated: in the presentation converter's _process_table, for any  *)
(* table with at least one row, every body-row line has exactly as many    *)
(* pipe-delimited cells as the header line.                                *)
(***************************************************************************)
\* number of cells of a line: its pipes that no backslash escapes, less one
PptxCellCount(line) ==
    Cardinality({ i \in 1..Len(line) :
                    line[i] = "|" /\ (i = 1 \/ line[i - 1] # "\\") }) - 1

C15_PptxWidth ==
    \A n \in 1..Len(slide_contents) :
        slide_contents[n].type = "table" =>
            LET lines == slide_contents[n].content
            IN  \A k \in 3..(Len(lines) - 2) :
                    PptxCellCount(lines[k]) = PptxCellCount(lines[1])

(***************************************************************************)
(* C16: a failure on one unit is reported, the unit is skipped without     *)
(* retry, and every later unit is still processed.  In the bulk loop       *)
(* every .docx file of the folder is gone through once, an invalid one     *)
(* reported and skipped, one whose conversion raises reported, and the     *)
(* loop ends only after the last file.  In the presentation converter a    *)
(* shape whose processing raises is reported and yields no content, and    *)
(* the shapes after it are processed and yield theirs.                     *)
(***************************************************************************)
\* the positions <<slide number, shape index>> of the shapes of the presentation
Positions ==
    UNION { { <<s, i>> : i \in 0..(Len(deck[s]) - 1) } : s \in 1..Len(deck) }

ShapeAt(p) == deck[p[1]][p[2] + 1]

\* the shape at p has been gone through
Done(p) == p[1] < slide_num \/ (p[1] = slide_num /\ p[2] < shape_idx)

\* the shape raises nowhere and has something to show
Succeeds(shape) ==
    shape.fails = "no" /\ (shape.kind = "table" => shape.table # <<>>)

ContentsAt(p) ==
    { n \in 1..Len(slide_contents) :
        <<slide_contents[n].slide_num, slide_contents[n].shape_idx>> = p }

ReportsOf(unit) == { n \in 1..Len(log) : log[n].unit = unit }

IsDocx(file) ==
    /\ Len(file.name) >= 5
    /\ SubSeq(file.name, Len(file.name) - 4, Len(file.name)) = <<".", "d", "o", "c", "x">>

\* base names of the valid .docx files among the first n of the folder
RECURSIVE ConvertedAmong(_)
ConvertedAmong(n) ==
    IF n = 0 THEN <<>>
    ELSE ConvertedAmong(n - 1)
         \o (IF IsDocx(listing[n]) /\ listing[n].archive = "docx"
             THEN <<SubSeq(listing[n].name, 1, Len(listing[n].name) - 5)>>
             ELSE <<>>)

C16_BulkLoop ==
    pc \in {"listing", "listed"} =>
        /\ pc = "listed" => file_pos = Len(listing)
        /\ calls = ConvertedAmong(file_pos)
        /\ \A i \in 1..file_pos :
              LET file == listing[i]
                  msgs == { log[n].msg : n \in ReportsOf(file.name) }
              IN  /\ Cardinality(ReportsOf(file.name)) = Cardinality(msgs)
                  /\ msgs = IF ~ IsDocx(file) THEN {}
                            ELSE IF file.archive # "docx" THEN {"Skipping invalid file"}
                            ELSE IF file.raises THEN {"Processing", "Error in"}
                            ELSE {"Processing"}

C16_Shapes ==
    source = "file" =>
        /\ \A p \in Positions :
              /\ Cardinality(ContentsAt(p)) = IF Done(p) /\ Succeeds(ShapeAt(p)) THEN 1 ELSE 0
              /\ Cardinality(ReportsOf(p)) =
                     IF Done(p) /\ ShapeAt(p).fails # "no" THEN 1 ELSE 0
        /\ \A m, n \in 1..Len(slide_contents) :
              m < n =>
                  \/ slide_contents[m].slide_num < slide_contents[n].slide_num
                  \/ /\ slide_contents[m].slide_num = slide_contents[n].slide_num
                     /\ slide_contents[m].shape_idx < slide_contents[n].shape_idx
        /\ pc \in {"write", "summary", "metadata"} => \A p \in Positions : Done(p)
        /\ returned = markdown_file => \A p \in Positions : Done(p)

C16_FailureSkipsOneUnit == C16_BulkLoop /\ C16_Shapes

\* a slide whose first shape raises and whose second shape yields content
C16_Witness ==
    /\ pc = "write"
    /\ \E s \in 1..Len(deck) :
          /\ Len(deck[s]) >= 2
          /\ deck[s][1].fails # "no"
          /\ deck[s][2].fails = "no"
          /\ ContentsAt(<<s, 0>>) = {}
          /\ ContentsAt(<<s, 1>>) # {}
          /\ ReportsOf(<<s, 0>>) # {}

(***************************************************************************)
(* C17: the chart counter and the image counter count the chart and the    *)
(* picture shapes whose processing has started, so they never decrease     *)
(* and grow by one per such shape; the chart ids recorded in               *)
(* chart_metadata, and likewise the image ids, are strictly increasing in  *)
(* append order; the chart and image file names are pairwise distinct;     *)
(* and there are never more chart entries than the chart counter says.     *)
(***************************************************************************)
Started(kind) ==
    Cardinality({ p \in Positions :
                    Done(p) /\ ShapeAt(p).kind = kind /\ ShapeAt(p).fails # "type" })

IsChartEntry(m) == m.type = "chart"

IsImageEntry(m) == m.type = "image"

IsChartOrImageEntry(m) == m.type \in {"chart", "image"}

StrictlyIncreasingIds(entries) ==
    \A m, n \in 1..Len(entries) : m < n => entries[m].id < entries[n].id

C17_Counters ==
    source = "file" =>
        LET charts == SelectSeq(chart_metadata, IsChartEntry)
            images == SelectSeq(chart_metadata, IsImageEntry)
            named == SelectSeq(chart_metadata, IsChartOrImageEntry)
        IN  /\ chart_counter = Started("chart")
            /\ image_counter = Started("picture")
            /\ StrictlyIncreasingIds(charts)
            /\ StrictlyIncreasingIds(images)
            /\ \A m, n \in 1..Len(named) : m # n => named[m].filename # named[n].filename
            /\ Len(charts) <= chart_counter
            /\ Len(images) <= image_counter
            /\ \A n \in 1..Len(charts) : charts[n].id \in 1..chart_counter
            /\ \A n \in 1..Len(images) : images[n].id \in 1..image_counter

\* three charts, the second raising before its entry is appended
C17_Witness ==
    LET charts == SelectSeq(chart_metadata, IsChartEntry)
    IN  /\ chart_counter = 3
        /\ Len(charts) = 2
        /\ charts[1].id = 1
        /\ charts[2].id = 3

(***************************************************************************)
(* C18: the pages are numbered 1..N without gap or duplicate, N being 1    *)
(* plus the number of body elements that hold at least one page break;     *)
(* the first line of each page is the header carrying the page's own       *)
(* number, and each page is written to exactly one file named after its    *)
(* number.                                                                 *)
(***************************************************************************)
\* positions of the elements of d[1..n] that hold a page break
BreakElements(d, n) == { i \in 1..n : d[i].breaks > 0 }

C18_PageNumbering ==
    /\ pc = "loop" => page_number = 1 + Cardinality(BreakElements(doc, pos))
    /\ pc = "done" =>
          LET N == 1 + Cardinality(BreakElements(doc, Len(doc)))
          IN  /\ Len(markdown_pages) = N
              /\ Len(files) = N
              /\ \A k \in 1..N :
                    /\ markdown_pages[k][1] = k
                    /\ markdown_pages[k][2] # <<>>
                    /\ markdown_pages[k][2][1] = page_header(k)
                    /\ files[k].path = output_path(base_filename, k)
                    /\ files[k].content = join(<<"\n">>, markdown_pages[k][2])
              /\ \A j, k \in 1..N : j # k => files[j].path # files[k].path

\* an element with two page breaks between two elements with one
C18_Witness ==
    /\ pc = "done"
    /\ Len(doc) = 3
    /\ doc[1].breaks = 1 /\ doc[2].breaks = 2 /\ doc[3].breaks = 1
    /\ Len(files) = 4

(***************************************************************************)
(* C19: every body element adds its lines to exactly one page, an element  *)
(* that holds a page break to the page its break opens; the pages read in  *)
(* order without their headers give the lines of all elements in document  *)
(* order, nothing lost, duplicated or reordered.                           *)
(***************************************************************************)
\* the lines of the elements d[a..b], in order
RECURSIVE LinesOfElements(_, _, _)
LinesOfElements(d, a, b) ==
    IF a > b THEN <<>>
    ELSE element_lines(d[a]) \o LinesOfElements(d, a + 1, b)

\* the lines of the pages ps[k..], headers removed
RECURSIVE LinesOfPages(_, _)
LinesOfPages(ps, k) ==
    IF k > Len(ps) THEN <<>>
    ELSE Tail(ps[k][2]) \o LinesOfPages(ps, k + 1)

\* first and last element of page k of n
FirstElementOf(d, k) ==
    IF k = 1 THEN 1 ELSE KthOf(BreakElements(d, Len(d)), k - 1)

LastElementOf(d, k, n) ==
    IF k = n THEN Len(d) ELSE KthOf(BreakElements(d, Len(d)), k) - 1

C19_LinesInOrder ==
    pc \in {"write", "done"} =>
        LET n == Len(markdown_pages)
        IN  /\ n = 1 + Cardinality(BreakElements(doc, Len(doc)))
            /\ \A k \in 1..n :
                  Tail(markdown_pages[k][2]) =
                      LinesOfElements(doc, FirstElementOf(doc, k), LastElementOf(doc, k, n))
            /\ LinesOfPages(markdown_pages, 1) = LinesOfElements(doc, 1, Len(doc))

\* lines before a break, lines of the element holding it, lines after it
C19_Witness ==
    /\ pc = "done"
    /\ Len(doc) = 3
    /\ doc[1].breaks = 0 /\ doc[2].breaks > 0 /\ doc[3].breaks = 0
    /\ \A i \in 1..3 : element_lines(doc[i]) # <<>>
    /\ element_lines(doc[1]) # element_lines(doc[2])
    /\ element_lines(doc[2]) # element_lines(doc[3])
    /\ Len(markdown_pages) = 2

(***************************************************************************)
(* C20: convert returns the path of presentation.md only after             *)
(* presentation.md, then charts_summary.md, then metadata.json have been   *)
(* written in that order, and None in every other case; without a source   *)
(* file it returns None and none of the three files is written; when a     *)
(* later step fails it returns None with the earlier files written.        *)
(***************************************************************************)
IsOutputFile(f) == f.path \in {markdown_file, summary_file, metadata_file}

IsCompleteOutputFile(f) == IsOutputFile(f) /\ f.complete

AllOutputs ==
    <<File(markdown_file, TRUE), File(summary_file, TRUE), File(metadata_file, TRUE)>>

C20_ReturnAfterAllFiles ==
    source # "none" =>
        LET outputs == SelectSeq(written, IsOutputFile)
            complete == SelectSeq(written, IsCompleteOutputFile)
        IN  /\ pc # "returned" => returned = <<>>
            /\ pc = "returned" =>
                  /\ returned \in {markdown_file, <<"None">>}
                  /\ returned = markdown_file <=> outputs = AllOutputs
                  /\ source # "file" => returned = <<"None">> /\ outputs = <<>>
                  /\ returned = <<"None">> =>
                        \E n \in 0..2 : complete = SubSeq(AllOutputs, 1, n)

\* the summary fails half written: None, with presentation.md on disk
C20_Witness ==
    /\ pc = "returned"
    /\ returned = <<"None">>
    /\ SelectSeq(written, IsOutputFile)
           = <<File(markdown_file, TRUE), File(summary_file, FALSE)>>

====
